---- MODULE Spec2Model ----
(***************************************************************************)
(* SilentLink: a serverless two-party WebRTC room.  The model follows the  *)
(* Room component of src/components/Room.tsx (the module that starts at    *)
(* line 1 of that file): the manual offer/answer handshake, the peer       *)
(* connection bookkeeping, and the encrypted chat / file tunnel.  Two      *)
(* browser tabs ("A" and "B") each run one instance of the component.      *)
(* The crypto module (../crypto) is not part of the sources; its contract  *)
(* is taken from the design document.                                      *)
(***************************************************************************)
EXTENDS Integers, Sequences, FiniteSets, TLC

\* ------------------------------------------------------------------ bounds
\* Number of RTCPeerConnection objects a tab may create in a run as the
\* offering side and as the answering side, and the latter in the runs where
\* the receiver processes offers repeatedly.
MaxOffers == 1
MaxAnswers == 1
MaxRepeat == 2
\* Number of chat messages the two tabs may send in a run.
MaxSend == 2
\* Number of files the two tabs may upload in a run.
MaxFiles == 1
\* Number of files the initiator may upload in a run with queued uploads.
MaxQueued == 2
MaxStreams == 4
\* C, the chunk size of the design, in bytes (16 KiB, scaled down).
ChunkSize == 2
\* Start value of the handshake countdown (180 in the source, scaled down).
CountdownStart == 1
\* Longest passphrase, in characters, of the runs that open an invite link.
MaxStr == 3
\* Number of frames a channel may hold unsent before a sender has to wait
\* (1 MiB in the design, scaled down).
BufferThreshold == 1

Peers == {"A", "B"}
Other(p) == IF p = "A" THEN "B" ELSE "A"
PcIds == 1..(MaxOffers + MaxRepeat)

\* ----------------------------------------------------------------- strings
\* A string is a sequence of atoms.  An atom is a character (or a word that
\* the model treats as one character), or one whole base64 text produced by
\* btoa(JSON.stringify(description)).
Ch(c) == [k |-> c, pc |-> 0, ice |-> ""]
Str(cs) == [i \in 1..Len(cs) |-> Ch(cs[i])]
Empty == <<>>

\* RTCSessionDescription as JSON.stringify sees it: its type and its sdp.  The
\* sdp is identified by the connection that produced it and by the ICE
\* gathering state it was read in.
Description(t, i, g) == [type |-> t, pc |-> i, ice |-> g]

\* JSON.stringify(pc.localDescription)
JSONstringify(d) ==
  << [k |-> IF d.type = "offer" THEN "json:offer" ELSE "json:answer",
      pc |-> d.pc, ice |-> d.ice] >>

\* btoa: every character of a JSON text is Latin-1, so btoa never throws here.
Btoa1(a) ==
  CASE a.k = "json:offer"  -> [a EXCEPT !.k = "b64:offer"]
    [] a.k = "json:answer" -> [a EXCEPT !.k = "b64:answer"]
    [] a.k = "json:null"   -> [a EXCEPT !.k = "b64:null"]
    [] a.k = "json:notype" -> [a EXCEPT !.k = "b64:notype"]
    [] a.k = "json:trunc"  -> [a EXCEPT !.k = "b64:trunc"]
    [] OTHER               -> [a EXCEPT !.k = "b64:text"]
btoa(s) == [i \in 1..Len(s) |-> Btoa1(s[i])]

\* The characters atob accepts: base64 text.  "A", "+", "/" and "=" are
\* single base64 characters; "!" and " x" style atoms are not.
IsB64(a) ==
  a.k \in {"b64:offer", "b64:answer", "b64:null", "b64:notype", "b64:trunc",
           "b64:text", "A", "+", "/", "="}
Atob1(a) ==
  CASE a.k = "b64:offer"  -> [a EXCEPT !.k = "json:offer"]
    [] a.k = "b64:answer" -> [a EXCEPT !.k = "json:answer"]
    [] a.k = "b64:null"   -> [a EXCEPT !.k = "json:null"]
    [] a.k = "b64:notype" -> [a EXCEPT !.k = "json:notype"]
    [] a.k = "b64:trunc"  -> [a EXCEPT !.k = "json:trunc"]
    [] OTHER              -> [a EXCEPT !.k = "bytes"]
\* atob(s): throws (ok = FALSE) on a character outside the base64 alphabet.
atob(s) ==
  IF \A i \in 1..Len(s) : IsB64(s[i])
    THEN [ok |-> TRUE, text |-> [i \in 1..Len(s) |-> Atob1(s[i])]]
    ELSE [ok |-> FALSE, text |-> Empty]

\* JSON.parse(text): throws unless the text is one complete JSON value.
\* value.type is "offer"/"answer" for a description, "null" for the JSON
\* value null (reading .type of it throws), "notype" for a value without a
\* type property.
JSONparse(t) ==
  IF Len(t) = 1 /\ t[1].k \in {"json:offer", "json:answer", "json:null", "json:notype"}
    THEN [ok |-> TRUE,
          value |-> Description(
             CASE t[1].k = "json:offer" -> "offer"
               [] t[1].k = "json:answer" -> "answer"
               [] t[1].k = "json:null" -> "null"
               [] OTHER -> "notype",
             t[1].pc, t[1].ice)]
    ELSE [ok |-> FALSE, value |-> Description("null", 0, "")]

\* JSON.parse(atob(payload)) followed by the first read of decoded.type, as
\* both handshake handlers do inside their try block.
Decode(payload) ==
  LET b == atob(payload)
      j == IF b.ok THEN JSONparse(b.text) ELSE [ok |-> FALSE, value |-> Description("null", 0, "")]
  IN  IF b.ok /\ j.ok /\ j.value.type # "null"
        THEN [ok |-> TRUE, value |-> j.value]
        ELSE [ok |-> FALSE, value |-> j.value]

\* ------------------------------------------------------------- invite link
\* The URL fragment setter percent-encodes the characters of the fragment
\* percent-encode set; of the model's alphabet only the space is in it.
FragmentEncode(s) ==
  [i \in 1..Len(s) |-> IF s[i].k = " " THEN Ch("%20") ELSE s[i]]

\* getInviteLink(): url.hash = `room=${roomId}&pass=${passphrase}&offer=${localSDP}`;
\* the result is window.location.hash of the tab that opens the link.
getInviteLink(roomId, passphrase, sdp) ==
  <<Ch("#")>> \o
  FragmentEncode(Str(<<"room", "=">>) \o roomId \o Str(<<"&", "pass", "=">>)
                 \o passphrase \o Str(<<"&", "offer", "=">>) \o sdp)

IndexOf(s, c) ==
  IF \E i \in 1..Len(s) : s[i].k = c
    THEN CHOOSE i \in 1..Len(s) : s[i].k = c /\ \A j \in 1..(i - 1) : s[j].k # c
    ELSE 0

RECURSIVE Split(_, _)
Split(s, c) ==
  LET i == IndexOf(s, c)
  IN  IF i = 0 THEN <<s>>
      ELSE <<SubSeq(s, 1, i - 1)>> \o Split(SubSeq(s, i + 1, Len(s)), c)

\* application/x-www-form-urlencoded decoding of a name or a value: "+"
\* becomes a space, then percent-decoding.
FormDecode(s) ==
  [i \in 1..Len(s) |->
     IF s[i].k = "+" \/ s[i].k = "%20" THEN Ch(" ") ELSE s[i]]

\* new URLSearchParams(init): the list of (name, value) pairs.
URLSearchParams(init) ==
  LET pieces == Split(init, "&")
      pair(b) == LET i == IndexOf(b, "=")
                 IN  IF i = 0 THEN [name |-> FormDecode(b), value |-> Empty]
                     ELSE [name |-> FormDecode(SubSeq(b, 1, i - 1)),
                           value |-> FormDecode(SubSeq(b, i + 1, Len(b)))]
      keep == SelectSeq(pieces, LAMBDA b : Len(b) > 0)
  IN  [i \in 1..Len(keep) |-> pair(keep[i])]

\* params.get(name): the first value with that name, or null.
ParamsGet(params, name) ==
  IF \E i \in 1..Len(params) : params[i].name = name
    THEN [null |-> FALSE,
          value |-> params[CHOOSE i \in 1..Len(params) :
                             /\ params[i].name = name
                             /\ \A j \in 1..(i - 1) : params[j].name # name].value]
    ELSE [null |-> TRUE, value |-> Empty]

\* hash.includes('offer=')
HashIncludesOffer(h) ==
  \E i \in 1..(Len(h) - 1) : h[i].k = "offer" /\ h[i + 1].k = "="

\* The offer the init effect reads from window.location.hash: found is the
\* truth of `hash.includes('offer=') && offerData`.
HashOffer(h) ==
  LET got == ParamsGet(URLSearchParams(SubSeq(h, 2, Len(h))), Str(<<"offer">>))
  IN  IF HashIncludesOffer(h) /\ ~got.null /\ got.value # Empty
        THEN [found |-> TRUE, value |-> got.value]
        ELSE [found |-> FALSE, value |-> Empty]

\* ------------------------------------------------------------------ crypto
\* deriveKey(passphrase, roomId): PBKDF2 over the passphrase, salted with the
\* room id.  The key is identified by the pair it was derived from.
deriveKey(passphrase, roomId) ==
  [derived |-> TRUE, pass |-> passphrase, salt |-> roomId]
NoKey == [derived |-> FALSE, pass |-> Empty, salt |-> Empty]

\* encryptMessage(key, text): AES-GCM under a fresh iv; {data, iv}.
encryptMessage(key, text, iv) ==
  [key |-> key, iv |-> iv, text |-> text, chunk |-> <<0, 0, 0>>]
\* encryptBuffer(key, buffer): the same for a chunk of a file, identified by
\* its offset in the file and its length.
encryptBuffer(key, chunk, iv) ==
  [key |-> key, iv |-> iv, text |-> "", chunk |-> chunk]
\* decryptMessage / decryptBuffer: fail closed under any other key.
decrypt(key, data) ==
  IF data.key = key THEN [ok |-> TRUE, text |-> data.text, chunk |-> data.chunk]
                    ELSE [ok |-> FALSE, text |-> "", chunk |-> <<0, 0, 0>>]

\* ------------------------------------------------------------------- state
VARIABLES
  config,            \* RoomConfig of each tab: roomId, passphrase
  life,              \* "unmounted" | "mounted"
  hash,              \* window.location.hash
  initPc,            \* where the init effect is: "deriveKey" | "getUserMedia" | "done"
  autoClick,         \* pending setTimeout callbacks that click #auto-action-trigger
  encryptionKeyRef,
  localStreamRef,    \* tracks of the acquired stream; {} while null
  participants,
  role, localSDP, remoteSDPInput, connectionStatus, handshakeStep, countdown,
  isChatOpen,
  peersRef,          \* peersRef.current.get('peer'): a connection id, 0 if absent
  dataChannelsRef,   \* dataChannelsRef.current.get('peer'): id of the connection
                     \* whose channel is registered, 0 if absent
  pcs,               \* every RTCPeerConnection created so far, by id
  wire,              \* wire[i]: frames sent on the channel of connection i and
                     \* not yet delivered to the other end
  sent,              \* every frame a tab has handed to dc.send, in order
  tasks,             \* decryptions in progress at each tab
  ivCtr,             \* number of ivs drawn so far
  messages,
  events,            \* alert / console.error / console.warn texts surfaced so far
  files,             \* the FileTransfer list of each tab, newest first
  receivingFileRef,  \* receivingFileRef.current: an index into rxStates, 0 if null
  rxStates,          \* the objects handleFileMetaReceive has created, by identity
  uploads,           \* the invocations of handleFileUpload that are still running
  stopped,           \* the tracks of the acquired stream that were stopped
  currentFilter, isMuted, isVideoOff,
  engine             \* the filter engine of the tab under study: its video
                     \* element, its render loop and the canvas it draws on

roomVars == <<config, life, hash, initPc, autoClick, encryptionKeyRef, localStreamRef,
          participants, role, localSDP, remoteSDPInput, connectionStatus,
          handshakeStep, countdown, isChatOpen, peersRef, dataChannelsRef, pcs,
          wire, sent, tasks, ivCtr, messages, events, files, receivingFileRef,
          rxStates, uploads, stopped, currentFilter, isMuted, isVideoOff>>
vars == <<roomVars, engine>>
fileVars == <<files, receivingFileRef, rxStates, uploads>>
mediaVars == <<stopped, currentFilter, isMuted, isVideoOff, engine>>

\* A connection that has not been created yet.
NoPc ==
  [owner |-> "none", isOffer |-> FALSE, tracks |-> {}, stage |-> "none",
   localDesc |-> "none", remoteDesc |-> 0,
   ice |-> "new", conn |-> "new", dc |-> "none", arg |-> 0]

Created(i) == pcs[i].owner # "none"
Closed(i) == pcs[i].conn = "closed"
\* The id the next `new RTCPeerConnection` gets.
NextPc == CHOOSE i \in PcIds : ~Created(i) /\ \A j \in 1..(i - 1) : Created(j)
Owned(p, isOffer) == {i \in PcIds : pcs[i].owner = p /\ pcs[i].isOffer = isOffer}
CanCreate(p, isOffer, cap) ==
  /\ \E i \in PcIds : ~Created(i)
  /\ Cardinality(Owned(p, isOffer)) < cap

R1 == Str(<<"R1">>)
R2 == Str(<<"R2">>)
P1 == Str(<<"P1">>)
P2 == Str(<<"P2">>)
\* The two tabs agree on room and passphrase, or differ in one of them.
Configs ==
  { [A |-> [roomId |-> R1, passphrase |-> P1], B |-> [roomId |-> r, passphrase |-> q]] :
      <<r, q>> \in {<<R1, P1>>, <<R1, P2>>, <<R2, P1>>} }

\* The filter engine before its effect has run: no video element, no raw
\* stream, no render loop, nothing drawn on the canvas.
NoEngine ==
  [pipelines |-> 0, rawStreamRef |-> 0, srcObject |-> 0, readyState |-> 0,
   play |-> 0, loops |-> 0, canvas |-> 0, console |-> {}]

Start(configs) ==
  /\ config \in configs
  /\ life = [p \in Peers |-> "unmounted"]
  /\ hash = [p \in Peers |-> Empty]
  /\ initPc = [p \in Peers |-> "deriveKey"]
  /\ autoClick = [p \in Peers |-> 0]
  /\ encryptionKeyRef = [p \in Peers |-> NoKey]
  /\ localStreamRef = [p \in Peers |-> {}]
  /\ participants = [p \in Peers |-> <<>>]
  /\ role = [p \in Peers |-> "none"]
  /\ localSDP = [p \in Peers |-> Empty]
  /\ remoteSDPInput = [p \in Peers |-> Empty]
  /\ connectionStatus = [p \in Peers |-> "idle"]
  /\ handshakeStep = [p \in Peers |-> 1]
  /\ countdown = [p \in Peers |-> CountdownStart]
  /\ isChatOpen = [p \in Peers |-> FALSE]
  /\ peersRef = [p \in Peers |-> 0]
  /\ dataChannelsRef = [p \in Peers |-> 0]
  /\ pcs = [i \in PcIds |-> NoPc]
  /\ wire = [i \in PcIds |-> <<>>]
  /\ sent = [p \in Peers |-> <<>>]
  /\ tasks = [p \in Peers |-> <<>>]
  /\ ivCtr = [p \in Peers |-> 0]
  /\ messages = [p \in Peers |-> <<>>]
  /\ events = [p \in Peers |-> {}]
  /\ files = [p \in Peers |-> <<>>]
  /\ receivingFileRef = [p \in Peers |-> 0]
  /\ rxStates = [p \in Peers |-> <<>>]
  /\ uploads = [p \in Peers |-> <<>>]
  /\ stopped = [p \in Peers |-> {}]
  /\ currentFilter = [p \in Peers |-> "MOSAIC"]
  /\ isMuted = [p \in Peers |-> FALSE]
  /\ isVideoOff = [p \in Peers |-> FALSE]
  /\ engine = NoEngine

\* Both tabs were set up with the same room and passphrase.
Init == Start({c \in Configs : c.A = c.B})

\* ------------------------------------------------------------ participants
Participant(id, isLocal, stream) ==
  [id |-> id, isLocal |-> isLocal, audioEnabled |-> TRUE, videoEnabled |-> TRUE,
   stream |-> stream]

\* An upsert that replaces the entry with the same id by the update.
addParticipantOverwrite(list, u) ==
  IF \E k \in 1..Len(list) : list[k].id = u.id
    THEN [k \in 1..Len(list) |-> IF list[k].id = u.id THEN u ELSE list[k]]
    ELSE Append(list, u)

\* addParticipant: replace the entry with the same id by { ...old, ...new }, or
\* append.
addParticipant(list, u) ==
  IF \E k \in 1..Len(list) : list[k].id = u.id
    THEN [k \in 1..Len(list) |->
            IF list[k].id = u.id
              THEN [fld \in DOMAIN list[k] \cup DOMAIN u |->
                      IF fld \in DOMAIN u THEN u[fld] ELSE list[k][fld]]
              ELSE list[k]]
    ELSE Append(list, u)

\* pc.close()
Close(c) == [c EXCEPT !.conn = "closed", !.dc = IF @ = "none" THEN "none" ELSE "closed"]

\* ------------------------------------------------------------- init effect
Mounted(p) == life[p] = "mounted"

\* The tab is opened: with an empty fragment, or through the invite link the
\* other tab currently offers (its "share" button, shown to an initiator in
\* step 2).
Mount(p) ==
  /\ life[p] = "unmounted"
  /\ life' = [life EXCEPT ![p] = "mounted"]
  /\ \/ hash' = hash
     \/ /\ role[Other(p)] = "initiator" /\ handshakeStep[Other(p)] = 2
        /\ connectionStatus[Other(p)] # "connected"
        /\ hash' = [hash EXCEPT ![p] =
                      getInviteLink(config[Other(p)].roomId,
                                    config[Other(p)].passphrase, localSDP[Other(p)])]
  /\ UNCHANGED <<fileVars, config, initPc, autoClick, encryptionKeyRef, localStreamRef, mediaVars,
                 participants, role, localSDP, remoteSDPInput, connectionStatus,
                 handshakeStep, countdown, isChatOpen, peersRef, dataChannelsRef,
                 pcs, wire, sent, tasks, ivCtr, messages, events>>

\* init, up to the first await: deriveKey resolves.
InitDeriveKey(p) ==
  /\ life[p] # "unmounted" /\ initPc[p] = "deriveKey"
  /\ encryptionKeyRef' = [encryptionKeyRef EXCEPT ![p] =
                            deriveKey(config[p].passphrase, config[p].roomId)]
  /\ initPc' = [initPc EXCEPT ![p] = "getUserMedia"]
  /\ UNCHANGED <<fileVars, config, life, hash, autoClick, localStreamRef, mediaVars, participants, role,
                 localSDP, remoteSDPInput, connectionStatus, handshakeStep,
                 countdown, isChatOpen, peersRef, dataChannelsRef, pcs, wire, sent,
                 tasks, ivCtr, messages, events>>

\* init, after getUserMedia settles: the stream is kept (or the error is
\* logged), then the fragment is inspected for an embedded offer.  If the
\* component was unmounted meanwhile the function still runs to its end: the
\* ref is written, the state setters have no effect and the timer finds no
\* button.
InitMedia(p, granted) ==
  /\ life[p] # "unmounted" /\ initPc[p] = "getUserMedia"
  /\ initPc' = [initPc EXCEPT ![p] = "done"]
  /\ IF granted
       THEN /\ localStreamRef' = [localStreamRef EXCEPT ![p] = {"camera", "microphone"}]
            /\ participants' =
                 IF Mounted(p)
                   THEN [participants EXCEPT ![p] =
                           addParticipant(@, Participant("local", TRUE, "local"))]
                   ELSE participants
            /\ events' = events
       ELSE /\ events' = [events EXCEPT ![p] = @ \cup {"console.error: Media access error"}]
            /\ UNCHANGED <<localStreamRef, participants>>
  /\ IF HashOffer(hash[p]).found /\ Mounted(p)
       THEN /\ remoteSDPInput' = [remoteSDPInput EXCEPT ![p] = HashOffer(hash[p]).value]
            /\ role' = [role EXCEPT ![p] = "receiver"]
            /\ autoClick' = [autoClick EXCEPT ![p] = @ + 1]
       ELSE UNCHANGED <<remoteSDPInput, role, autoClick>>
  /\ UNCHANGED <<fileVars, mediaVars, config, life, hash, encryptionKeyRef, localSDP,
                 connectionStatus, handshakeStep, countdown, isChatOpen, peersRef,
                 dataChannelsRef, pcs, wire, sent, tasks, ivCtr, messages>>

\* ---------------------------------------------------------------- handshake
\* The handshake panel is rendered while connectionStatus is not 'connected'.
PanelShown(p) == Mounted(p) /\ connectionStatus[p] # "connected"

\* setupPeerConnection(remoteId, isOffer), which runs to its end without
\* suspending: the connection is registered under 'peer', the tracks of
\* localStreamRef.current are added, the handlers are installed and, for the
\* offering side, the data channel is created and registered.
setupPeerConnection(p, isOffer, offer) ==
  [owner |-> p, isOffer |-> isOffer, tracks |-> localStreamRef[p],
   stage |-> "created", localDesc |-> "none", remoteDesc |-> 0,
   ice |-> "new", conn |-> "new",
   dc |-> IF isOffer THEN "connecting" ELSE "none", arg |-> offer]

\* Click on "as initiator": startAsInitiator up to its first suspension.
startAsInitiator(p) ==
  /\ PanelShown(p) /\ role[p] = "none" /\ CanCreate(p, TRUE, MaxOffers)
  /\ role' = [role EXCEPT ![p] = "initiator"]
  /\ connectionStatus' = [connectionStatus EXCEPT ![p] = "preparing"]
  /\ pcs' = [pcs EXCEPT ![NextPc] = setupPeerConnection(p, TRUE, 0)]
  /\ peersRef' = [peersRef EXCEPT ![p] = NextPc]
  /\ dataChannelsRef' = [dataChannelsRef EXCEPT ![p] = NextPc]
  /\ UNCHANGED <<fileVars, config, life, hash, initPc, autoClick, encryptionKeyRef,
                 localStreamRef, mediaVars, participants, localSDP, remoteSDPInput,
                 handshakeStep, countdown, isChatOpen, wire, sent, tasks, ivCtr,
                 messages, events>>

\* Click on "as receiver".
chooseReceiver(p) ==
  /\ PanelShown(p) /\ role[p] = "none"
  /\ role' = [role EXCEPT ![p] = "receiver"]
  /\ UNCHANGED <<fileVars, config, life, hash, initPc, autoClick, encryptionKeyRef,
                 localStreamRef, mediaVars, participants, localSDP, remoteSDPInput,
                 connectionStatus, handshakeStep, countdown, isChatOpen, peersRef,
                 dataChannelsRef, pcs, wire, sent, tasks, ivCtr, messages, events>>

\* What a user may put into the textarea: the code shown by the other tab, the
\* code shown by the own tab (the wrong clipboard), a truncated code, a code
\* with a character outside base64.
Truncated == << [k |-> "b64:trunc", pc |-> 0, ice |-> ""] >>
NotBase64 == Str(<<"!">>)
Codes(p) == {localSDP[Other(p)], localSDP[p]}
\* A code that decodes to an object of type 'offer' whose sdp is not a
\* session description.
BadOffer == << [k |-> "b64:offer", pc |-> 0, ice |-> ""] >>
Pastes(p) == Codes(p) \cup {Truncated, NotBase64}

\* onChange of the textarea, which an initiator sees in step 2 and a receiver
\* always.
typeRemote(p, s) ==
  /\ PanelShown(p)
  /\ \/ role[p] = "receiver"
     \/ role[p] = "initiator" /\ handshakeStep[p] = 2
  /\ s # remoteSDPInput[p]
  /\ remoteSDPInput' = [remoteSDPInput EXCEPT ![p] = s]
  /\ UNCHANGED <<fileVars, config, life, hash, initPc, autoClick, encryptionKeyRef,
                 localStreamRef, mediaVars, participants, role, localSDP, connectionStatus,
                 handshakeStep, countdown, isChatOpen, peersRef, dataChannelsRef,
                 pcs, wire, sent, tasks, ivCtr, messages, events>>

\* handleOfferAndReply with the phase set before the payload is decoded, so
\* that a payload that fails to decode leaves the tab in 'preparing'.
handleOfferAndReplyEager(p, cap) ==
  LET decoded == Decode(remoteSDPInput[p]) IN
  /\ Mounted(p)
  /\ IF remoteSDPInput[p] = Empty
       THEN UNCHANGED <<connectionStatus, pcs, peersRef, events>>
       ELSE /\ connectionStatus' = [connectionStatus EXCEPT ![p] = "preparing"]
            /\ IF ~decoded.ok
                 THEN /\ events' = [events EXCEPT ![p] = @ \cup {"alert: parse failed"}]
                      /\ UNCHANGED <<pcs, peersRef>>
                 ELSE IF decoded.value.type # "offer"
                   THEN UNCHANGED <<pcs, peersRef, events>>
                   ELSE /\ CanCreate(p, FALSE, cap)
                        /\ pcs' = [pcs EXCEPT ![NextPc] =
                                     setupPeerConnection(p, FALSE, decoded.value.pc)]
                        /\ peersRef' = [peersRef EXCEPT ![p] = NextPc]
                        /\ events' = events
  /\ UNCHANGED <<fileVars, config, life, hash, initPc, encryptionKeyRef, localStreamRef, mediaVars,
                 participants, role, localSDP, remoteSDPInput, handshakeStep,
                 countdown, isChatOpen, dataChannelsRef, wire, sent, tasks, ivCtr,
                 messages>>

\* handleOfferAndReply up to its first suspension; cap bounds the connections
\* the tab creates this way.
handleOfferAndReply(p, cap) ==
  LET decoded == Decode(remoteSDPInput[p]) IN
  /\ Mounted(p)
  /\ IF remoteSDPInput[p] = Empty
       THEN UNCHANGED <<connectionStatus, pcs, peersRef, events>>
       ELSE IF ~decoded.ok
         THEN /\ events' = [events EXCEPT ![p] = @ \cup {"alert: parse failed"}]
              /\ UNCHANGED <<connectionStatus, pcs, peersRef>>
         ELSE IF decoded.value.type # "offer"
           THEN UNCHANGED <<connectionStatus, pcs, peersRef, events>>
           ELSE /\ CanCreate(p, FALSE, cap)
                /\ connectionStatus' = [connectionStatus EXCEPT ![p] = "preparing"]
                /\ pcs' = [pcs EXCEPT ![NextPc] =
                             setupPeerConnection(p, FALSE, decoded.value.pc)]
                /\ peersRef' = [peersRef EXCEPT ![p] = NextPc]
                /\ events' = events
  /\ UNCHANGED <<fileVars, config, life, hash, initPc, encryptionKeyRef, localStreamRef, mediaVars,
                 participants, role, localSDP, remoteSDPInput, handshakeStep,
                 countdown, isChatOpen, dataChannelsRef, wire, sent, tasks, ivCtr,
                 messages>>

\* Click on #auto-action-trigger, the receiver's "parse" button.
clickParse(p, cap) ==
  /\ PanelShown(p) /\ role[p] = "receiver"
  /\ handleOfferAndReply(p, cap)
  /\ autoClick' = autoClick

\* The timer set by init fires: the button is clicked if it is rendered.
autoTrigger(p, cap) ==
  /\ Mounted(p) /\ autoClick[p] > 0
  /\ autoClick' = [autoClick EXCEPT ![p] = @ - 1]
  /\ IF PanelShown(p) /\ role[p] = "receiver"
       THEN handleOfferAndReply(p, cap)
       ELSE UNCHANGED <<fileVars, config, life, hash, initPc, encryptionKeyRef, localStreamRef, mediaVars,
                        participants, role, localSDP, remoteSDPInput, handshakeStep,
                        countdown, isChatOpen, dataChannelsRef, wire, sent, tasks,
                        ivCtr, messages, connectionStatus, pcs, peersRef, events>>

\* onIceComplete: the handler both startAsInitiator and handleOfferAndReply
\* install; it acts when gathering is complete.
onIceComplete(p, i) ==
  /\ localSDP' = [localSDP EXCEPT ![p] =
        btoa(JSONstringify(Description(pcs[i].localDesc, i, "complete")))]
  /\ connectionStatus' = [connectionStatus EXCEPT ![p] = "ready"]
  /\ handshakeStep' = [handshakeStep EXCEPT ![p] = 2]

\* pc.ontrack, which the browser fires once per track of the remote
\* description while setRemoteDescription is being applied: the remote
\* participant is added (or replaced) each time.
RECURSIVE ontrack(_, _)
ontrack(list, n) ==
  IF n = 0 THEN list
  ELSE ontrack(addParticipant(list, Participant("peer", FALSE, "remote")), n - 1)

\* The awaited WebRTC calls of the two handshake functions settle:
\* createOffer + setLocalDescription for the initiator, setRemoteDescription +
\* createAnswer + setLocalDescription for the receiver.  They reject on a
\* connection that was closed meanwhile, and setRemoteDescription rejects an
\* offer that holds no session description (arg = 0); only
\* handleOfferAndReply catches that.
describe(i) ==
  LET p == pcs[i].owner
      rejects == Closed(i) \/ (~pcs[i].isOffer /\ pcs[i].arg = 0)
  IN
  /\ Created(i) /\ pcs[i].stage = "created"
  /\ IF rejects
       THEN /\ pcs' = [pcs EXCEPT ![i].stage = "rejected"]
            /\ events' = [events EXCEPT ![p] = @ \cup
                 {IF pcs[i].isOffer THEN "unhandledrejection" ELSE "alert: parse failed"}]
       ELSE /\ pcs' = [pcs EXCEPT
                 ![i].stage = "described",
                 ![i].localDesc = IF pcs[i].isOffer THEN "offer" ELSE "answer",
                 ![i].remoteDesc = pcs[i].arg]
            /\ events' = events
  /\ participants' =
       IF rejects \/ pcs[i].isOffer THEN participants
       ELSE [participants EXCEPT ![p] = ontrack(@, Cardinality(pcs[pcs[i].arg].tracks))]
  /\ UNCHANGED <<fileVars, config, life, hash, initPc, autoClick, encryptionKeyRef,
                 localStreamRef, mediaVars, role, localSDP, remoteSDPInput,
                 connectionStatus, handshakeStep, countdown, isChatOpen, peersRef,
                 dataChannelsRef, wire, sent, tasks, ivCtr, messages>>

\* arm with the payload published as soon as the local description is set,
\* whatever the gathering state (trickle-style signalling).
armUngathered(i) ==
  LET p == pcs[i].owner IN
  /\ Created(i) /\ pcs[i].stage = "described"
  /\ pcs' = [pcs EXCEPT ![i].stage = "armed"]
  /\ localSDP' = [localSDP EXCEPT ![p] =
        btoa(JSONstringify(Description(pcs[i].localDesc, i, pcs[i].ice)))]
  /\ connectionStatus' = [connectionStatus EXCEPT ![p] = "ready"]
  /\ handshakeStep' = [handshakeStep EXCEPT ![p] = 2]
  /\ UNCHANGED <<fileVars, config, life, hash, initPc, autoClick, encryptionKeyRef,
                 localStreamRef, mediaVars, participants, role, remoteSDPInput, countdown,
                 isChatOpen, peersRef, dataChannelsRef, wire, sent, tasks, ivCtr,
                 messages, events>>

\* The continuation after setLocalDescription with the gathering handler
\* installed but not called.
armHandlerOnly(i) ==
  /\ Created(i) /\ pcs[i].stage = "described"
  /\ pcs' = [pcs EXCEPT ![i].stage = "armed"]
  /\ UNCHANGED <<fileVars, config, life, hash, initPc, autoClick, encryptionKeyRef,
                 localStreamRef, mediaVars, participants, role, remoteSDPInput, countdown,
                 isChatOpen, peersRef, dataChannelsRef, wire, sent, tasks, ivCtr,
                 messages, events, localSDP, connectionStatus, handshakeStep>>

\* The continuation after setLocalDescription: the gathering handler is
\* installed and called once if gathering is already complete.
arm(i) ==
  LET p == pcs[i].owner IN
  /\ Created(i) /\ pcs[i].stage = "described"
  /\ pcs' = [pcs EXCEPT ![i].stage = "armed"]
  /\ IF pcs[i].ice = "complete" /\ Mounted(p)
       THEN onIceComplete(p, i)
       ELSE UNCHANGED <<localSDP, connectionStatus, handshakeStep>>
  /\ UNCHANGED <<fileVars, config, life, hash, initPc, autoClick, encryptionKeyRef,
                 localStreamRef, mediaVars, participants, role, remoteSDPInput, countdown,
                 isChatOpen, peersRef, dataChannelsRef, wire, sent, tasks, ivCtr,
                 messages, events>>

\* ICE gathering of a connection with a local description completes; the
\* icegatheringstatechange handler runs if it is installed.
iceGatheringComplete(i) ==
  LET p == pcs[i].owner IN
  /\ Created(i) /\ ~Closed(i) /\ pcs[i].localDesc # "none" /\ pcs[i].ice = "new"
  /\ pcs' = [pcs EXCEPT ![i].ice = "complete"]
  /\ IF pcs[i].stage = "armed" /\ Mounted(p)
       THEN onIceComplete(p, i)
       ELSE UNCHANGED <<localSDP, connectionStatus, handshakeStep>>
  /\ UNCHANGED <<fileVars, config, life, hash, initPc, autoClick, encryptionKeyRef,
                 localStreamRef, mediaVars, participants, role, remoteSDPInput, countdown,
                 isChatOpen, peersRef, dataChannelsRef, wire, sent, tasks, ivCtr,
                 messages, events>>

\* Click on "activate": finalizeAsInitiator.  setRemoteDescription rejects
\* unless the connection is open and still waits for an answer.
finalizeAsInitiator(p) ==
  LET decoded == Decode(remoteSDPInput[p])
      i == peersRef[p]
  IN
  /\ PanelShown(p) /\ role[p] = "initiator" /\ handshakeStep[p] = 2
  /\ remoteSDPInput[p] # Empty
  /\ IF ~decoded.ok
       THEN /\ events' = [events EXCEPT ![p] = @ \cup {"alert: code parse failed"}]
            /\ UNCHANGED <<pcs, participants>>
       ELSE IF i # 0 /\ decoded.value.type = "answer"
         THEN IF ~Closed(i) /\ pcs[i].localDesc = "offer" /\ pcs[i].remoteDesc = 0
                THEN /\ pcs' = [pcs EXCEPT ![i].remoteDesc = decoded.value.pc]
                     /\ participants' = [participants EXCEPT ![p] =
                          ontrack(@, Cardinality(pcs[decoded.value.pc].tracks))]
                     /\ events' = events
                ELSE /\ events' = [events EXCEPT ![p] = @ \cup {"alert: code parse failed"}]
                     /\ UNCHANGED <<pcs, participants>>
         ELSE UNCHANGED <<pcs, events, participants>>
  /\ UNCHANGED <<fileVars, config, life, hash, initPc, autoClick, encryptionKeyRef,
                 localStreamRef, mediaVars, role, localSDP, remoteSDPInput,
                 connectionStatus, handshakeStep, countdown, isChatOpen, peersRef,
                 dataChannelsRef, wire, sent, tasks, ivCtr, messages>>

\* The countdown effect: one tick of the interval.
tick(p) ==
  /\ Mounted(p) /\ role[p] # "none" /\ connectionStatus[p] # "connected"
  /\ countdown[p] > 0
  /\ countdown' = [countdown EXCEPT ![p] = @ - 1]
  /\ UNCHANGED <<fileVars, config, life, hash, initPc, autoClick, encryptionKeyRef,
                 localStreamRef, mediaVars, participants, role, localSDP, remoteSDPInput,
                 connectionStatus, handshakeStep, isChatOpen, peersRef,
                 dataChannelsRef, pcs, wire, sent, tasks, ivCtr, messages, events>>

\* -------------------------------------------------------- peer connections
\* Two connections have each other's description and both are open.
Linked(i) ==
  LET j == pcs[i].remoteDesc IN
  /\ j # 0 /\ Created(j) /\ pcs[j].remoteDesc = i
  /\ pcs[i].localDesc # "none" /\ pcs[j].localDesc # "none"
  /\ ~Closed(i) /\ ~Closed(j)

\* removeParticipant('peer') followed by the reset of the handshake, which
\* the handler performs when the map of connections is empty afterwards (it
\* always is: 'peer' is its only key).
teardown(p) ==
  /\ participants' = [participants EXCEPT ![p] =
                        SelectSeq(@, LAMBDA u : u.id # "peer")]
  /\ peersRef' = [peersRef EXCEPT ![p] = 0]
  /\ dataChannelsRef' = [dataChannelsRef EXCEPT ![p] = 0]
  /\ connectionStatus' = [connectionStatus EXCEPT ![p] = "idle"]
  /\ role' = [role EXCEPT ![p] = "none"]
  /\ localSDP' = [localSDP EXCEPT ![p] = Empty]
  /\ remoteSDPInput' = [remoteSDPInput EXCEPT ![p] = Empty]
  /\ handshakeStep' = [handshakeStep EXCEPT ![p] = 1]
  /\ hash' = [hash EXCEPT ![p] = Empty]
  /\ countdown' = [countdown EXCEPT ![p] = CountdownStart]

\* pc.onconnectionstatechange with pc.connectionState = s.  The transport
\* reports connected once the two ends are linked, disconnected after that,
\* and failed after disconnected or when the checks of a connection that has
\* a remote description never succeed.
onconnectionstatechange(i, s) ==
  LET p == pcs[i].owner
      reg == peersRef[p]
  IN
  /\ Created(i) /\ ~Closed(i)
  /\ CASE s = "connected"    -> pcs[i].conn \in {"new", "disconnected"} /\ Linked(i)
       [] s = "disconnected" -> pcs[i].conn = "connected"
       [] s = "failed"       -> \/ pcs[i].conn = "disconnected"
                                \/ pcs[i].conn = "new" /\ pcs[i].remoteDesc # 0
  /\ IF s = "connected"
       THEN /\ pcs' = [pcs EXCEPT ![i].conn = s,
                                  ![i].dc = IF @ = "connecting" THEN "open" ELSE @]
            /\ connectionStatus' = [connectionStatus EXCEPT ![p] = "connected"]
            /\ UNCHANGED <<participants, peersRef, dataChannelsRef, role, localSDP,
                           remoteSDPInput, handshakeStep, hash, countdown>>
       ELSE /\ pcs' = [k \in PcIds |->
                         IF k = reg THEN Close(pcs[k])
                         ELSE IF k = i THEN [pcs[k] EXCEPT !.conn = s]
                         ELSE pcs[k]]
            /\ teardown(p)
  /\ UNCHANGED <<fileVars, config, life, initPc, autoClick, encryptionKeyRef, localStreamRef, mediaVars,
                 isChatOpen, wire, sent, tasks, ivCtr, messages, events>>

\* pc.ondatachannel of the answering side: the channel the offering side
\* created arrives, open, and is registered.
ondatachannel(i) ==
  LET p == pcs[i].owner IN
  /\ Created(i) /\ ~Closed(i) /\ ~pcs[i].isOffer
  /\ pcs[i].conn = "connected" /\ pcs[i].dc = "none"
  /\ pcs' = [pcs EXCEPT ![i].dc = "open"]
  /\ dataChannelsRef' = [dataChannelsRef EXCEPT ![p] = i]
  /\ UNCHANGED <<fileVars, config, life, hash, initPc, autoClick, encryptionKeyRef,
                 localStreamRef, mediaVars, participants, role, localSDP, remoteSDPInput,
                 connectionStatus, handshakeStep, countdown, isChatOpen, peersRef,
                 wire, sent, tasks, ivCtr, messages, events>>

\* The "disconnect" button of the header: onExit unmounts the component and
\* the cleanup of the init effect runs.  It closes the registered connection,
\* empties both maps and stops the tracks localStreamRef.current holds then.
exit(p) ==
  /\ Mounted(p)
  /\ life' = [life EXCEPT ![p] = "exited"]
  /\ pcs' = [k \in PcIds |-> IF k = peersRef[p] THEN Close(pcs[k]) ELSE pcs[k]]
  /\ peersRef' = [peersRef EXCEPT ![p] = 0]
  /\ dataChannelsRef' = [dataChannelsRef EXCEPT ![p] = 0]
  /\ stopped' = [stopped EXCEPT ![p] = @ \cup localStreamRef[p]]
  /\ UNCHANGED <<fileVars, engine, currentFilter, isMuted, isVideoOff, config, hash,
                 initPc,
                 autoClick, encryptionKeyRef, localStreamRef, participants, role,
                 localSDP, remoteSDPInput, connectionStatus, handshakeStep, countdown,
                 isChatOpen, wire, sent, tasks, ivCtr, messages, events>>

\* ------------------------------------------------------------ control bar
\* The control bar is rendered while connectionStatus is 'connected'.
BarShown(p) == Mounted(p) /\ connectionStatus[p] = "connected"
Filters == {"NONE", "MOSAIC", "BLACK"}

\* A filter button that, for BLACK, also disables the audio track.
setCurrentFilterBlackMutes(p, f) ==
  /\ BarShown(p) /\ f # currentFilter[p]
  /\ currentFilter' = [currentFilter EXCEPT ![p] = f]
  /\ isMuted' = [isMuted EXCEPT ![p] = IF f = "BLACK" THEN TRUE ELSE @]
  /\ UNCHANGED <<fileVars, engine, stopped, isVideoOff, config, life, hash, initPc,
                 autoClick, encryptionKeyRef, localStreamRef, participants, role,
                 localSDP, remoteSDPInput, connectionStatus, handshakeStep, countdown,
                 isChatOpen, peersRef, dataChannelsRef, pcs, wire, sent, tasks, ivCtr,
                 messages, events>>

\* One of the three filter buttons.
setCurrentFilter(p, f) ==
  /\ BarShown(p) /\ f # currentFilter[p]
  /\ currentFilter' = [currentFilter EXCEPT ![p] = f]
  /\ UNCHANGED <<fileVars, engine, stopped, isMuted, isVideoOff, config, life, hash, initPc,
                 autoClick, encryptionKeyRef, localStreamRef, participants, role,
                 localSDP, remoteSDPInput, connectionStatus, handshakeStep, countdown,
                 isChatOpen, peersRef, dataChannelsRef, pcs, wire, sent, tasks, ivCtr,
                 messages, events>>

\* The microphone button: the audio track is enabled or disabled and isMuted
\* follows it; without an audio track the click does nothing.
toggleMic(p) ==
  /\ BarShown(p) /\ "microphone" \in localStreamRef[p]
  /\ isMuted' = [isMuted EXCEPT ![p] = ~@]
  /\ UNCHANGED <<fileVars, engine, stopped, currentFilter, isVideoOff, config, life, hash,
                 initPc, autoClick, encryptionKeyRef, localStreamRef, participants,
                 role, localSDP, remoteSDPInput, connectionStatus, handshakeStep,
                 countdown, isChatOpen, peersRef, dataChannelsRef, pcs, wire, sent,
                 tasks, ivCtr, messages, events>>

\* The camera button, likewise for the video track.
toggleVideo(p) ==
  /\ BarShown(p) /\ "camera" \in localStreamRef[p]
  /\ isVideoOff' = [isVideoOff EXCEPT ![p] = ~@]
  /\ UNCHANGED <<fileVars, engine, stopped, currentFilter, isMuted, config, life, hash,
                 initPc, autoClick, encryptionKeyRef, localStreamRef, participants,
                 role, localSDP, remoteSDPInput, connectionStatus, handshakeStep,
                 countdown, isChatOpen, peersRef, dataChannelsRef, pcs, wire, sent,
                 tasks, ivCtr, messages, events>>

\* ------------------------------------------------------------------ tunnel
Texts == {"t1", "t2"}

\* The frames of the tunnel: two JSON envelopes and the binary packet.
ChatFrame(data) == [type |-> "chat", data |-> data, id |-> 0, size |-> 0]
MetaFrame(id, size) ==
  [type |-> "file-meta", data |-> encryptBuffer(NoKey, <<0, 0>>, 0), id |-> id, size |-> size]
Packet(data) == [type |-> "binary", data |-> data, id |-> 0, size |-> 0]

\* The entries of the message log: a text, or a file with the Blob made of
\* the given chunks.
TextMessage(senderId, text) ==
  [senderId |-> senderId, type |-> "text", text |-> text, id |-> 0, blob |-> <<>>]
FileMessage(senderId, id, chunks) ==
  [senderId |-> senderId, type |-> "file", text |-> "", id |-> id, blob |-> chunks]

\* dataChannelsRef.current.forEach(dc => { if (dc?.readyState === 'open') dc.send(f) })
HasOpenChannel(p) == dataChannelsRef[p] # 0 /\ pcs[dataChannelsRef[p]].dc = "open"
Broadcast(p, f) ==
  IF HasOpenChannel(p)
    THEN /\ wire' = [wire EXCEPT ![dataChannelsRef[p]] = Append(@, f)]
         /\ sent' = [sent EXCEPT ![p] = Append(@, f)]
    ELSE UNCHANGED <<wire, sent>>

\* dc.bufferedAmount, counted in frames: what was handed to the channel of
\* connection i and has not left it yet.
bufferedAmount(i) == Len(wire[i])

\* The chat button of the control bar, shown while connected.
openChat(p) ==
  /\ Mounted(p) /\ connectionStatus[p] = "connected" /\ ~isChatOpen[p]
  /\ isChatOpen' = [isChatOpen EXCEPT ![p] = TRUE]
  /\ UNCHANGED <<fileVars, config, life, hash, initPc, autoClick, encryptionKeyRef,
                 localStreamRef, mediaVars, participants, role, localSDP, remoteSDPInput,
                 connectionStatus, handshakeStep, countdown, peersRef,
                 dataChannelsRef, pcs, wire, sent, tasks, ivCtr, messages, events>>

\* sendMessage with the text put into the envelope as it is.
sendMessageClear(p, text) ==
  /\ Mounted(p) /\ isChatOpen[p] /\ ivCtr["A"] + ivCtr["B"] < MaxSend
  /\ IF ~encryptionKeyRef[p].derived
       THEN UNCHANGED <<wire, sent, ivCtr, messages>>
       ELSE /\ Broadcast(p, ChatFrame(encryptMessage(NoKey, text, 0)))
            /\ ivCtr' = [ivCtr EXCEPT ![p] = @ + 1]
            /\ messages' = [messages EXCEPT ![p] = Append(@, TextMessage("local", text))]
  /\ UNCHANGED <<fileVars, config, life, hash, initPc, autoClick, encryptionKeyRef,
                 localStreamRef, mediaVars, participants, role, localSDP,
                 remoteSDPInput, connectionStatus, handshakeStep, countdown,
                 isChatOpen, peersRef, dataChannelsRef, pcs, tasks, events>>

\* sendMessage(text), from the form of the chat panel; the step is the
\* function from the call to its end, the encryption included.
sendMessage(p, text) ==
  /\ Mounted(p) /\ isChatOpen[p] /\ ivCtr["A"] + ivCtr["B"] < MaxSend
  /\ IF ~encryptionKeyRef[p].derived
       THEN UNCHANGED <<wire, sent, ivCtr, messages>>
       ELSE /\ Broadcast(p, ChatFrame(encryptMessage(encryptionKeyRef[p], text, ivCtr[p] + 1)))
            /\ ivCtr' = [ivCtr EXCEPT ![p] = @ + 1]
            /\ messages' = [messages EXCEPT ![p] = Append(@, TextMessage("local", text))]
  /\ UNCHANGED <<fileVars, config, life, hash, initPc, autoClick, encryptionKeyRef,
                 localStreamRef, mediaVars, participants, role, localSDP, remoteSDPInput,
                 connectionStatus, handshakeStep, countdown, isChatOpen, peersRef,
                 dataChannelsRef, pcs, tasks, events>>

RemoveAt(s, k) == SubSeq(s, 1, k - 1) \o SubSeq(s, k + 1, Len(s))

\* A FileTransfer entry, and the list with the entries of one id changed.
FileTransfer(id, size) ==
  [id |-> id, size |-> size, progress |-> 0, status |-> "transferring"]
\* prev.map(f => f.id === id ? { ...f, ...patch } : f)
MapFiles(list, id, patch) ==
  [k \in 1..Len(list) |->
     IF list[k].id = id
       THEN [fld \in DOMAIN list[k] |->
               IF fld \in DOMAIN patch THEN patch[fld] ELSE list[k][fld]]
       ELSE list[k]]

\* Math.round(n / d * 100); for d = 0 it is NaN or Infinity, written -1.
Percent(n, d) == IF d = 0 THEN -1 ELSE (200 * n + d) \div (2 * d)

\* A piece of a file is identified by its offset and its length.  The
\* lengths of the pieces file.stream() delivers are chosen by the browser:
\* any length from 1 to MaxPiece that the rest of the file allows.
MaxPiece == ChunkSize + 1
PieceSizes(offset, size) ==
  1..(IF size - offset < MaxPiece THEN size - offset ELSE MaxPiece)

\* The bytes of a Blob made of the given pieces, each byte named by the file
\* it came from and its offset there; a piece is <<offset, length, file id>>.
RECURSIVE Bytes(_)
Bytes(chunks) ==
  IF chunks = <<>> THEN <<>>
  ELSE [b \in 1..Head(chunks)[2] |-> <<Head(chunks)[3], Head(chunks)[1] + b - 1>>]
       \o Bytes(Tail(chunks))

\* The pieces read from the stream of a file up to its end, as one piece.
Whole(id, size) == IF size = 0 THEN <<>> ELSE <<<<0, size, id>>>>

\* The sizes of the files a user picks.
FileSizes == {0, ChunkSize - 1, ChunkSize, ChunkSize + 1, 2 * ChunkSize + 1}

\* The ids Math.random has produced so far; the next one is their number
\* plus one.
FileIds == UNION {{files[q][k].id : k \in 1..Len(files[q])} : q \in Peers}

\* handleFileUpload(file) up to its first suspension, the first read of the
\* stream.
handleFileUpload(p, size, cap) ==
  LET id == Cardinality(FileIds) + 1 IN
  /\ Mounted(p) /\ isChatOpen[p]
  /\ Cardinality(FileIds) < cap
  /\ IF ~encryptionKeyRef[p].derived
       THEN UNCHANGED <<files, uploads, wire, sent>>
       ELSE /\ files' = [files EXCEPT ![p] = <<FileTransfer(id, size)>> \o @]
            /\ Broadcast(p, MetaFrame(id, size))
            /\ uploads' = [uploads EXCEPT ![p] = Append(@, [id |-> id, size |-> size, offset |-> 0])]
  /\ UNCHANGED <<receivingFileRef, rxStates, config, life, hash, initPc, autoClick,
                 encryptionKeyRef, localStreamRef, mediaVars, participants, role, localSDP,
                 remoteSDPInput, connectionStatus, handshakeStep, countdown,
                 isChatOpen, peersRef, dataChannelsRef, pcs, tasks, ivCtr, messages,
                 events>>

\* One turn of the loop of handleFileUpload: reader.read() settles, at the
\* end of the stream (n = 0) or with a piece of n bytes; at the end the file
\* is logged, as the Blob of the pieces read, and marked completed;
\* otherwise the piece is encrypted, sent as one packet and the progress is
\* updated.
uploadStep(p, k, n) ==
  LET u == uploads[p][k]
      piece == <<u.offset, n, u.id>>
      offset == u.offset + n
  IN
  /\ k \in 1..Len(uploads[p])
  /\ IF u.offset >= u.size THEN n = 0 ELSE n \in PieceSizes(u.offset, u.size)
  /\ IF u.offset >= u.size
       THEN /\ messages' = [messages EXCEPT ![p] =
                 Append(@, FileMessage("local", u.id, Whole(u.id, u.size)))]
            /\ files' = [files EXCEPT ![p] =
                 MapFiles(@, u.id, [status |-> "completed"])]
            /\ uploads' = [uploads EXCEPT ![p] = RemoveAt(@, k)]
            /\ UNCHANGED <<wire, sent, ivCtr>>
       ELSE /\ Broadcast(p, Packet(encryptBuffer(encryptionKeyRef[p], piece, ivCtr[p] + 1)))
            /\ ivCtr' = [ivCtr EXCEPT ![p] = @ + 1]
            /\ files' = [files EXCEPT ![p] =
                 MapFiles(@, u.id, [progress |-> Percent(offset, u.size)])]
            /\ uploads' = [uploads EXCEPT ![p][k].offset = offset]
            /\ messages' = messages
  /\ UNCHANGED <<receivingFileRef, rxStates, config, life, hash, initPc, autoClick,
                 encryptionKeyRef, localStreamRef, mediaVars, participants, role, localSDP,
                 remoteSDPInput, connectionStatus, handshakeStep, countdown,
                 isChatOpen, peersRef, dataChannelsRef, pcs, tasks, events>>

\* dc.onmessage of the channel of connection i, up to its first suspension:
\* the oldest frame in flight towards i is taken.  A chat frame starts a
\* decryption; a file-meta frame runs handleFileMetaReceive; a packet runs
\* handleFileChunkReceive, which starts a decryption for the transfer that is
\* current at that moment.
onmessage(i) ==
  LET p == pcs[i].owner
      j == pcs[i].remoteDesc
      f == Head(wire[j])
      hasKey == encryptionKeyRef[p].derived
  IN
  /\ Created(i) /\ pcs[i].dc = "open" /\ Linked(i) /\ wire[j] # <<>>
  /\ wire' = [wire EXCEPT ![j] = Tail(@)]
  /\ tasks' =
       IF f.type = "chat" /\ hasKey
         THEN [tasks EXCEPT ![p] = Append(@, [kind |-> "chat", data |-> f.data, state |-> 0])]
       ELSE IF f.type = "binary" /\ receivingFileRef[p] # 0 /\ hasKey
         THEN [tasks EXCEPT ![p] =
                 Append(@, [kind |-> "chunk", data |-> f.data, state |-> receivingFileRef[p]])]
       ELSE tasks
  /\ IF f.type = "file-meta"
       THEN /\ rxStates' = [rxStates EXCEPT ![p] =
                 Append(@, [id |-> f.id, size |-> f.size, received |-> 0, chunks |-> <<>>])]
            /\ receivingFileRef' = [receivingFileRef EXCEPT ![p] = Len(rxStates[p]) + 1]
            /\ files' = [files EXCEPT ![p] = <<FileTransfer(f.id, f.size)>> \o @]
       ELSE UNCHANGED <<rxStates, receivingFileRef, files>>
  /\ UNCHANGED <<uploads, config, life, hash, initPc, autoClick, encryptionKeyRef,
                 localStreamRef, mediaVars, participants, role, localSDP, remoteSDPInput,
                 connectionStatus, handshakeStep, countdown, isChatOpen, peersRef,
                 dataChannelsRef, pcs, sent, ivCtr, messages, events>>

\* The continuation of handleFileChunkReceive after decryptBuffer resolved
\* with the piece: it is added to the transfer the call started with, and the
\* transfer is finalized once the declared size has been received.
ChunkReceived(p, st, piece) ==
  LET state == rxStates[p][st]
      chunks == Append(state.chunks, piece)
      received == state.received + piece[2]
      done == received >= state.size
      progress == Percent(received, state.size)
  IN
  /\ rxStates' = [rxStates EXCEPT ![p][st].chunks = chunks, ![p][st].received = received]
  /\ files' = [files EXCEPT ![p] =
        MapFiles(@, state.id,
                 IF done THEN [progress |-> progress, status |-> "completed"]
                 ELSE [progress |-> progress])]
  /\ messages' = IF done
       THEN [messages EXCEPT ![p] = Append(@, FileMessage("peer", state.id, chunks))]
       ELSE messages
  /\ receivingFileRef' = IF done THEN [receivingFileRef EXCEPT ![p] = 0]
                         ELSE receivingFileRef

\* The chat branch of dc.onmessage with the message logged without the key
\* having verified it.
ChatReceivedUnverified(p, r) ==
  /\ messages' = [messages EXCEPT ![p] = Append(@, TextMessage("peer", r.text))]
  /\ events' = events

\* The chat branch of dc.onmessage with the decrypted text never logged.
ChatReceivedDropped(p, r) ==
  /\ messages' = messages
  /\ events' = IF r.ok THEN events
               ELSE [events EXCEPT ![p] = @ \cup {"console.error: Data error"}]

\* The chat branch of dc.onmessage after decryptMessage settled with r: the
\* text is appended to the log as a message of the remote peer, or the
\* rejection is caught and logged.
ChatReceived(p, r) ==
  IF r.ok
    THEN /\ messages' = [messages EXCEPT ![p] = Append(@, TextMessage("peer", r.text))]
         /\ events' = events
    ELSE /\ events' = [events EXCEPT ![p] = @ \cup {"console.error: Data error"}]
         /\ messages' = messages

\* A decryption settles and its handler continues: the text is appended to
\* the log or the piece to its transfer, or the rejection is caught and
\* logged.
decryptSettles(p, k) ==
  LET t == tasks[p][k]
      r == decrypt(encryptionKeyRef[p], t.data)
  IN
  /\ k \in 1..Len(tasks[p])
  /\ tasks' = [tasks EXCEPT ![p] = RemoveAt(@, k)]
  /\ IF t.kind = "chat"
       THEN /\ ChatReceived(p, r)
            /\ UNCHANGED <<rxStates, files, receivingFileRef>>
       ELSE IF r.ok
         THEN /\ ChunkReceived(p, t.state, r.chunk)
              /\ events' = events
         ELSE /\ events' = [events EXCEPT ![p] = @ \cup {"console.error: Decryption error"}]
              /\ UNCHANGED <<rxStates, files, receivingFileRef, messages>>
  /\ UNCHANGED <<uploads, config, life, hash, initPc, autoClick, encryptionKeyRef,
                 localStreamRef, mediaVars, participants, role, localSDP, remoteSDPInput,
                 connectionStatus, handshakeStep, countdown, isChatOpen, peersRef,
                 dataChannelsRef, pcs, wire, sent, ivCtr>>

\* ----------------------------------------------------------- specification
\* The scenario: tab A is opened first, with an empty fragment, and its user
\* starts the session; tab B is opened once A has initialised, and its user
\* joins, through the invite link or by choosing the receiver role.
Initiator == "A"
Receiver == "B"

Open(grants) ==
  \/ Mount(Initiator)
  \/ initPc[Initiator] = "done" /\ Mount(Receiver)
  \/ \E p \in Peers : InitDeriveKey(p)
  \/ \E p \in Peers, granted \in grants : InitMedia(p, granted)

\* The steps of the handshake that no user takes.
Signalling ==
  \/ \E i \in PcIds : describe(i)
  \/ \E i \in PcIds : arm(i)
  \/ \E i \in PcIds : iceGatheringComplete(i)
  \/ \E i \in PcIds, s \in {"connected", "disconnected", "failed"} :
        onconnectionstatechange(i, s)
  \/ \E i \in PcIds : ondatachannel(i)

\* The handshake with users who may paste anything, each tab processing
\* at most MaxAnswers offers; the countdown runs.
Next ==
  \/ Open(BOOLEAN)
  \/ Signalling
  \/ startAsInitiator(Initiator)
  \/ chooseReceiver(Receiver)
  \/ \E p \in Peers : \E s \in Pastes(p) : typeRemote(p, s)
  \/ clickParse(Receiver, MaxAnswers)
  \/ autoTrigger(Receiver, MaxAnswers)
  \/ finalizeAsInitiator(Initiator)
  \/ \E p \in Peers : tick(p)

Spec == Init /\ [][Next]_vars

\* The handshake with users who grant the camera and paste the codes the
\* tabs show, the receiver processing up to MaxRepeat offers.
NextRepeat ==
  \/ Open({TRUE})
  \/ Signalling
  \/ startAsInitiator(Initiator)
  \/ chooseReceiver(Receiver)
  \/ \E p \in Peers : \E s \in Codes(p) : typeRemote(p, s)
  \/ clickParse(Receiver, MaxRepeat)
  \/ autoTrigger(Receiver, MaxRepeat)
  \/ finalizeAsInitiator(Initiator)

SpecRepeat == Init /\ [][NextRepeat]_vars

\* The handshake with a receiver who may paste, besides the code of the
\* initiator, a code of type 'offer' that holds no session description, and
\* who processes up to MaxRepeat codes.
NextBadOffer ==
  \/ Open({TRUE})
  \/ Signalling
  \/ startAsInitiator(Initiator)
  \/ chooseReceiver(Receiver)
  \/ \E s \in {localSDP[Initiator], BadOffer} : typeRemote(Receiver, s)
  \/ typeRemote(Initiator, localSDP[Receiver])
  \/ clickParse(Receiver, MaxRepeat)
  \/ finalizeAsInitiator(Initiator)

SpecBadOffer == Init /\ [][NextBadOffer]_vars

\* The handshake up to the payloads: the tabs create their connections, the
\* receiver processing up to MaxRepeat times the code the initiator shows,
\* and ICE gathering completes before or after the handler is installed.
\* The continuation of an async function after an await that has settled is
\* a microtask, which always runs: arm is weakly fair.
NextGather ==
  \/ Open({TRUE})
  \/ \E i \in PcIds : describe(i)
  \/ \E i \in PcIds : arm(i)
  \/ \E i \in PcIds : iceGatheringComplete(i)
  \/ startAsInitiator(Initiator)
  \/ chooseReceiver(Receiver)
  \/ typeRemote(Receiver, localSDP[Initiator])
  \/ clickParse(Receiver, MaxRepeat)

SpecGather ==
  Init /\ [][NextGather]_vars /\ \A i \in PcIds : WF_vars(arm(i))

\* The session in which the receiver joins through the invite link, the
\* initiator pastes the answer of the receiver, and the two chat; the tabs
\* agree on room and passphrase or differ in one of them.
Join ==
  \/ Open({TRUE})
  \/ Signalling
  \/ startAsInitiator(Initiator)
  \/ typeRemote(Initiator, localSDP[Receiver])
  \/ clickParse(Receiver, MaxAnswers)
  \/ autoTrigger(Receiver, MaxAnswers)
  \/ finalizeAsInitiator(Initiator)
  \/ \E p \in Peers : openChat(p)

NextChat ==
  \/ Join
  \/ \E p \in Peers, text \in Texts : sendMessage(p, text)
  \/ \E i \in PcIds : onmessage(i)
  \/ \E p \in Peers : \E k \in 1..Len(tasks[p]) : decryptSettles(p, k)

InitChat == Start(Configs)

SpecChat == InitChat /\ [][NextChat]_vars

\* The same session with file uploads in place of the chat, for tabs that
\* agree on room and passphrase.
NextFile ==
  \/ Join
  \/ \E p \in Peers, size \in FileSizes : handleFileUpload(p, size, MaxFiles)
  \/ \E p \in Peers : \E k \in 1..Len(uploads[p]) : \E n \in 0..MaxPiece :
        uploadStep(p, k, n)
  \/ \E i \in PcIds : onmessage(i)
  \/ \E p \in Peers : \E k \in 1..Len(tasks[p]) : decryptSettles(p, k)

SpecFile == Init /\ [][NextFile]_vars

\* The session up to the point where the receiver has opened the invite link
\* and processed its offer, for every passphrase of up to MaxStr characters
\* out of a letter, "&", "=" and the word "offer", and two room ids.
LinkAlphabet == {Ch("P1"), Ch("&"), Ch("="), Ch("offer")}
Passphrases == UNION {[1..n -> LinkAlphabet] : n \in 1..MaxStr}
LinkRooms == {R1, Str(<<"&", "R1", "=">>)}
LinkConfigs ==
  { [A |-> c, B |-> c] :
      c \in {[roomId |-> r, passphrase |-> q] : r \in LinkRooms, q \in Passphrases} }

NextLink ==
  \/ Open({TRUE})
  \/ startAsInitiator(Initiator)
  \/ \E i \in PcIds : describe(i)
  \/ \E i \in PcIds : arm(i)
  \/ \E i \in PcIds : iceGatheringComplete(i)
  \/ autoTrigger(Receiver, MaxAnswers)

InitLink == Start(LinkConfigs)

SpecLink == InitLink /\ [][NextLink]_vars

\* The session with file uploads between tabs whose passphrases differ.
InitWrongKey == Start({c \in Configs : c.A.passphrase # c.B.passphrase})

SpecFileWrongKey == InitWrongKey /\ [][NextFile]_vars

\* The sending side of the tunnel: chat messages and file uploads of the
\* initiator, for tabs that agree on room and passphrase, nothing being
\* delivered yet.
NextTunnel ==
  \/ Join
  \/ \E text \in Texts : sendMessage(Initiator, text)
  \/ \E size \in FileSizes : handleFileUpload(Initiator, size, MaxFiles)
  \/ \E k \in 1..Len(uploads[Initiator]) : \E n \in 0..MaxPiece :
        uploadStep(Initiator, k, n)

SpecTunnel == Init /\ [][NextTunnel]_vars

\* Queued uploads: the initiator picks up to MaxQueued files that fit into
\* one chunk, a second one possibly while the first is still being read, and
\* the receiver takes them in.
QueuedSizes == 1..ChunkSize
NextQueued ==
  \/ Join
  \/ \E size \in QueuedSizes : handleFileUpload(Initiator, size, MaxQueued)
  \/ \E k \in 1..Len(uploads[Initiator]) : \E n \in 0..MaxPiece :
        uploadStep(Initiator, k, n)
  \/ \E i \in PcIds : onmessage(i)
  \/ \E k \in 1..Len(tasks[Receiver]) : decryptSettles(Receiver, k)

SpecQueued == Init /\ [][NextQueued]_vars

\* addParticipant on its own: the list of a tab under updates that carry the
\* id and any of the fields a toggle, a track or a message of the peer can
\* change, and under the complete entries the callers in the source pass.
ParticipantIds == {"local", "peer"}
Carry(us, fld, values) ==
  us \cup {[f \in DOMAIN u \cup {fld} |-> IF f = fld THEN v ELSE u[f]] :
             u \in us, v \in values}
PartialUpdates ==
  Carry(Carry(Carry({[id |-> id] : id \in ParticipantIds},
                    "audioEnabled", BOOLEAN),
              "videoEnabled", BOOLEAN),
        "stream", {"remote"})
Updates ==
  PartialUpdates
    \cup {Participant("local", TRUE, "local"), Participant("peer", FALSE, "remote")}

updateParticipant(p, u) ==
  /\ participants' = [participants EXCEPT ![p] = addParticipant(@, u)]
  /\ UNCHANGED <<fileVars, mediaVars, config, life, hash, initPc, autoClick,
                 encryptionKeyRef, localStreamRef, role, localSDP, remoteSDPInput,
                 connectionStatus, handshakeStep, countdown, isChatOpen, peersRef,
                 dataChannelsRef, pcs, wire, sent, tasks, ivCtr, messages, events>>

NextParticipants == \E u \in Updates : updateParticipant(Initiator, u)

SpecParticipants == Init /\ [][NextParticipants]_vars

\* The session in which either user may leave at any moment, the camera may
\* be refused, and the transport may fail.
NextExit ==
  \/ Mount(Initiator)
  \/ initPc[Initiator] = "done" /\ Mount(Receiver)
  \/ \E p \in Peers : InitDeriveKey(p)
  \/ \E p \in Peers, granted \in BOOLEAN : InitMedia(p, granted)
  \/ Signalling
  \/ startAsInitiator(Initiator)
  \/ typeRemote(Initiator, localSDP[Receiver])
  \/ clickParse(Receiver, MaxAnswers)
  \/ autoTrigger(Receiver, MaxAnswers)
  \/ finalizeAsInitiator(Initiator)
  \/ \E p \in Peers : exit(p)

SpecExit == Init /\ [][NextExit]_vars

\* The connected session with the control bar in use.
NextControls ==
  \/ Join
  \/ \E p \in Peers, f \in Filters : setCurrentFilter(p, f)
  \/ \E p \in Peers : toggleMic(p)
  \/ \E p \in Peers : toggleVideo(p)

SpecControls == Init /\ [][NextControls]_vars

\* --------------------------------------------------------------- properties
\* The alert and console texts that report a failure to the user.
Alerts == {"alert: parse failed", "alert: code parse failed", "alert: wrong type"}

\* C1: the raw camera track is never attached to a peer connection: the
\* video track of every connection comes from the filtered output stream.
C1_OnlyFilteredVideo ==
  \A i \in PcIds : "camera" \notin pcs[i].tracks

\* C6: an initiator that is ready, has no answer applied and whose countdown
\* has reached zero is in an expired state: it is no longer shown as ready,
\* and handshake-expired has been surfaced.
C6_ExpiresAtZero ==
  \A p \in Peers :
    ( /\ role[p] = "initiator" /\ connectionStatus[p] = "ready"
      /\ countdown[p] = 0
      /\ peersRef[p] # 0 /\ pcs[peersRef[p]].remoteDesc = 0 )
    => "handshake-expired" \in events[p]

\* A step in which tab p processes the content of its textarea as a receiver:
\* a click on the parse button, or the timer of the invite link clicking it.
Processes(p, cap) ==
  \/ clickParse(p, cap)
  \/ PanelShown(p) /\ role[p] = "receiver" /\ autoTrigger(p, cap)

\* What a malformed payload must leave alone.
HandshakeUntouched(p) ==
  /\ pcs' = pcs /\ peersRef' = peersRef /\ dataChannelsRef' = dataChannelsRef
  /\ role' = role /\ connectionStatus' = connectionStatus
  /\ handshakeStep' = handshakeStep /\ localSDP' = localSDP
  /\ remoteSDPInput' = remoteSDPInput

\* C7 (as stated): processing any payload that fails base64 or JSON decoding,
\* the empty one included, as a receiver reports the failure, creates no
\* connection and leaves role and phase unchanged.
C7_EveryMalformedReported ==
  [][ \A p \in Peers :
        (Processes(p, MaxAnswers) /\ ~Decode(remoteSDPInput[p]).ok)
        => ("alert: parse failed" \in events'[p] /\ HandshakeUntouched(p)) ]_vars

\* C7 (amended): processing a non-empty payload that fails base64 or JSON
\* decoding as a receiver reports the failure, creates no connection and
\* leaves role, phase and payloads unchanged; processing the empty payload
\* changes nothing and reports nothing.
C7_MalformedRecoverable ==
  [][ \A p \in Peers :
        (Processes(p, MaxAnswers) /\ ~Decode(remoteSDPInput[p]).ok)
        => /\ HandshakeUntouched(p)
           /\ IF remoteSDPInput[p] = Empty
                THEN events' = events
                ELSE "alert: parse failed" \in events'[p] ]_vars

\* C7 witness: a receiver that was told of a malformed payload has since had
\* a valid offer accepted and is connected.
C7_RecoveredAfterMalformed ==
  /\ "alert: parse failed" \in events[Receiver]
  /\ connectionStatus[Receiver] = "connected"
  /\ \A i \in PcIds : pcs[i].stage # "rejected"

\* C8: once a well-formed payload of the wrong type for the role has been
\* processed (an answer by a receiver, an offer by an initiator), the
\* description is not applied, the phase is unchanged and a diagnostic has
\* been surfaced.
C8_WrongTypeReported ==
  [][ \A p \in Peers :
        LET decoded == Decode(remoteSDPInput[p])
            wrong == \/ Processes(p, MaxAnswers) /\ decoded.value.type # "offer"
                     \/ finalizeAsInitiator(p) /\ decoded.value.type # "answer"
        IN  (decoded.ok /\ wrong)
            => /\ pcs' = pcs /\ connectionStatus' = connectionStatus
               /\ events'[p] \cap Alerts # {} ]_vars

\* The textarea of tab p holds the offer embedded in the link the tab was
\* opened with, and the tab has processed that offer before.
EmbeddedProcessedBefore(p) ==
  LET h == HashOffer(hash[p])
      decoded == Decode(h.value)
  IN  /\ h.found /\ remoteSDPInput[p] = h.value
      /\ decoded.ok /\ decoded.value.type = "offer"
      /\ \E i \in Owned(p, FALSE) : pcs[i].arg = decoded.value.pc

\* C9: processing the embedded offer again, once a first processing of it
\* has started, creates no connection and changes neither the phase, the
\* local payload nor the registered connection.
C9_EmbeddedOfferIdempotent ==
  [][ \A p \in Peers :
        (Processes(p, MaxRepeat) /\ EmbeddedProcessedBefore(p))
        => UNCHANGED <<pcs, connectionStatus, localSDP, peersRef>> ]_vars

\* The texts of the chat messages tab p logged as its own, those it logged
\* as the peer's, and those of the chat frames it handed to an open channel.
TextsOf(log, senderId) ==
  LET own == SelectSeq(log, LAMBDA m : m.senderId = senderId /\ m.type = "text")
  IN  [k \in 1..Len(own) |-> own[k].text]
FramesOf(p, type) == SelectSeq(sent[p], LAMBDA f : f.type = type)
ChatSent(p) == [k \in 1..Len(FramesOf(p, "chat")) |-> FramesOf(p, "chat")[k].data.text]
Count(seq, x) == Cardinality({k \in 1..Len(seq) : seq[k] = x})

\* C2: the log of a tab holds, as its own messages, exactly the texts that
\* were handed to an open channel; a send without an open channel appends
\* nothing.
C2_LogOnlyWhatWasSent ==
  \A p \in Peers : TextsOf(messages[p], "local") = ChatSent(p)

\* Nothing that q sent is still on its way to p: no frame is in flight and no
\* decryption is pending.
Quiet(q, p) ==
  /\ \A i \in PcIds : pcs[i].owner = q => wire[i] = <<>>
  /\ tasks[p] = <<>>

\* C4: with the same passphrase and room id on both sides, the texts a tab
\* logs as the peer's are texts the other tab sent, each as often as it was
\* sent once nothing is on its way any more, and nothing is logged under any
\* other sender; with the same passphrase and different room ids no text of
\* the peer is ever logged.
C4_SameKeyDelivers ==
  \A p \in Peers :
    LET q == Other(p)
        got == TextsOf(messages[p], "peer")
    IN  /\ \A k \in 1..Len(messages[p]) : messages[p][k].senderId \in {"local", "peer"}
        /\ config[p] = config[q] =>
             \A t \in Texts :
               /\ Count(got, t) <= Count(ChatSent(q), t)
               /\ Quiet(q, p) => Count(got, t) = Count(ChatSent(q), t)
        /\ ( /\ config[p].passphrase = config[q].passphrase
             /\ config[p].roomId # config[q].roomId ) => got = <<>>

\* C4 witness: with equal passphrase and room id the receiver has logged a
\* text the initiator sent.
C4_TextArrived ==
  /\ config[Initiator] = config[Receiver]
  /\ Count(ChatSent(Initiator), "t2") > 0
  /\ Count(TextsOf(messages[Receiver], "peer"), "t2") > 0

\* C5: with different passphrases no text of the peer is ever logged, and a
\* decryption that settles leaves the connection status, the connections, the
\* registered connection and channel, the frames in flight and the other
\* pending decryptions as they are.
C5_WrongPassphrasePerMessage ==
  /\ [](config["A"].passphrase # config["B"].passphrase
        => \A p \in Peers : TextsOf(messages[p], "peer") = <<>>)
  /\ [][ \A p \in Peers : \A k \in 1..Len(tasks[p]) :
           (config["A"].passphrase # config["B"].passphrase /\ decryptSettles(p, k))
           => /\ UNCHANGED <<connectionStatus, pcs, peersRef, dataChannelsRef, wire>>
              /\ tasks'[p] = RemoveAt(tasks[p], k) ]_vars

\* C5 witness: with different passphrases both tabs are connected, the
\* initiator has sent two texts, the first failed at the receiver, which is
\* now decrypting the second, and the receiver has logged nothing.
C5_ConnectedButUnreadable ==
  /\ config["A"].passphrase # config["B"].passphrase
  /\ \A p \in Peers : connectionStatus[p] = "connected"
  /\ Len(ChatSent(Initiator)) = 2
  /\ "console.error: Data error" \in events[Receiver]
  /\ Len(tasks[Receiver]) = 1 /\ tasks[Receiver][1].data.iv = 2
  /\ messages[Receiver] = <<>>

\* The pieces tab q has handed to a channel as packets, in order.
PiecesSent(q) ==
  [k \in 1..Len(FramesOf(q, "binary")) |-> FramesOf(q, "binary")[k].data.chunk]

\* The pieces of the Blob a tab has logged for file id, as the peer's.
Finalized(p, id) ==
  SelectSeq(messages[p], LAMBDA m : m.senderId = "peer" /\ m.type = "file" /\ m.id = id)

\* C3: once a file has been sent completely over the open channel (its
\* file-meta and every piece handed to the channel, the upload finished) and
\* nothing is on its way any more, the receiver has finalized exactly one
\* file with the bytes of the original and its transfer is completed; this
\* includes the empty file, for which no packet is sent.
C3_FileRoundTrip ==
  \A q \in Peers : \A k \in 1..Len(files[q]) :
    LET p == Other(q)
        f == files[q][k]
        handed == /\ \E n \in 1..Len(sent[q]) : sent[q][n] = MetaFrame(f.id, f.size)
                  /\ Len(Bytes(PiecesSent(q))) = f.size
    IN  (f.status = "completed" /\ handed /\ Quiet(q, p) /\ config[p] = config[q])
        => /\ Len(Finalized(p, f.id)) = 1
           /\ Bytes(Finalized(p, f.id)[1].blob) = Bytes(Whole(f.id, f.size))
           /\ \E m \in 1..Len(files[p]) :
                files[p][m].id = f.id /\ files[p][m].status = "completed"

\* C10: when a tab that was opened with the invite link of the other tab
\* (built from its room id, passphrase and local payload) finishes
\* initialising, its role is receiver and its remote payload is exactly that
\* local payload.
C10_LinkRoundTrip ==
  [][ \A p \in Peers :
        LET q == Other(p) IN
        ( /\ initPc[p] = "getUserMedia" /\ initPc'[p] = "done"
          /\ localSDP[q] # Empty
          /\ hash[p] = getInviteLink(config[q].roomId, config[q].passphrase, localSDP[q]) )
        => (role'[p] = "receiver" /\ remoteSDPInput'[p] = localSDP[q]) ]_vars

\* The connection whose local description a payload encodes, 0 if the
\* payload is not the encoding of a description.
ProducedBy(payload) ==
  IF Len(payload) = 1 /\ payload[1].pc \in PcIds THEN payload[1].pc ELSE 0

\* C11: a non-empty local payload exists only if ICE gathering of the
\* connection that produced it is complete, and a tab whose phase is ready
\* holds as local payload the base64(JSON) encoding of the complete local
\* description of a connection it created.
C11_PayloadOnlyWhenGathered ==
  \A p \in Peers :
    LET i == ProducedBy(localSDP[p]) IN
    /\ localSDP[p] # Empty =>
         /\ i # 0 /\ pcs[i].owner = p
         /\ pcs[i].ice = "complete" /\ localSDP[p][1].ice = "complete"
    /\ connectionStatus[p] = "ready" =>
         /\ i # 0 /\ pcs[i].localDesc # "none"
         /\ localSDP[p] = btoa(JSONstringify(Description(pcs[i].localDesc, i, "complete")))

\* C11 witness: both tabs are ready, the initiator showing its offer and the
\* receiver its answer.
C11_BothPayloadsShown ==
  /\ connectionStatus[Initiator] = "ready" /\ connectionStatus[Receiver] = "ready"
  /\ localSDP[Initiator] # Empty /\ localSDP[Receiver] # Empty
  /\ pcs[ProducedBy(localSDP[Receiver])].localDesc = "answer"

\* Connection i has been established: the transport reported it connected.
Established(i) == pcs[i].conn \in {"connected", "disconnected"}

\* Tab p holds a remote participant.
HasRemote(list) == \E k \in 1..Len(list) : list[k].id = "peer"

\* The state a torn-down session of tab p is in.
SessionEnded(p) ==
  /\ ~HasRemote(participants'[p])
  /\ peersRef'[p] = 0 /\ dataChannelsRef'[p] = 0
  /\ connectionStatus'[p] = "idle" /\ role'[p] = "none"
  /\ localSDP'[p] = Empty /\ remoteSDPInput'[p] = Empty

\* C12: when an established connection reports disconnected or failed, the
\* session of its tab ends: the remote participant is removed, that
\* connection is closed and unregistered, the data channel is unregistered,
\* the status is idle, the role none and both payloads are empty.
C12_FailureEndsSession ==
  [][ \A i \in PcIds : \A s \in {"disconnected", "failed"} :
        (Established(i) /\ onconnectionstatechange(i, s))
        => (SessionEnded(pcs[i].owner) /\ pcs'[i].conn = "closed") ]_vars

\* C13: a connection that reports disconnected is not torn down at once (it
\* may report connected again within the grace period): the report leaves
\* the remote participant, the registered connection and the connected
\* status as they are, and closes no connection.
C13_DisconnectedIsNotFatal ==
  [][ \A i \in PcIds :
        onconnectionstatechange(i, "disconnected")
        => /\ UNCHANGED <<participants, peersRef, connectionStatus>>
           /\ \A k \in PcIds : Closed(k)' = Closed(k) ]_vars

\* Everything tab p owns is released: each connection it created is closed
\* together with its data channel, and each track of its stream is stopped.
Released(p) ==
  /\ \A i \in PcIds : pcs[i].owner = p => (Closed(i) /\ pcs[i].dc \in {"none", "closed"})
  /\ localStreamRef[p] \subseteq stopped[p]

\* C14: after teardown everything is released, whether the user left (at
\* any later moment) or a connection of the tab reported disconnected or
\* failed (right after the handler).
C14_TeardownReleasesAll ==
  /\ [](\A p \in Peers : life[p] = "exited" => Released(p))
  /\ [][ \A i \in PcIds : \A s \in {"disconnected", "failed"} :
           onconnectionstatechange(i, s) => Released(pcs[i].owner)' ]_vars

\* C15: when the user leaves while the data channel is open, a
\* session-terminate envelope is handed to the channel before it is closed.
C15_ExitAnnounced ==
  [][ \A p \in Peers :
        (exit(p) /\ HasOpenChannel(p))
        => \E k \in 1..Len(sent'[p]) : sent'[p][k].type = "session-terminate" ]_vars

\* C16: a change of the filter or of the microphone while the data channel
\* is open hands a privacy-update envelope to the channel.
C16_PrivacyUpdatePushed ==
  [][ \A p \in Peers :
        ( /\ HasOpenChannel(p)
          /\ \/ \E f \in Filters : setCurrentFilter(p, f)
             \/ toggleMic(p) )
        => /\ Len(sent'[p]) = Len(sent[p]) + 1
           /\ sent'[p][Len(sent'[p])].type = "privacy-update" ]_vars

\* C17: no chunk frame is handed to a channel whose buffered amount exceeds
\* the threshold.
C17_ChunksWaitForDrain ==
  [][ \A p \in Peers : \A k \in 1..Len(uploads[p]) : \A n \in 1..MaxPiece :
        ( /\ uploadStep(p, k, n)
          /\ Len(FramesOf(p, "binary"))' = Len(FramesOf(p, "binary")) + 1 )
        => bufferedAmount(dataChannelsRef[p]) <= BufferThreshold ]_vars

\* C18: the packets of a file carry at most C plaintext bytes each, and
\* every packet except the last of the file carries exactly C.
C18_FixedSizeChunks ==
  \A q \in Peers :
    LET sentPieces == PiecesSent(q) IN
    \A k \in 1..Len(sentPieces) :
      /\ sentPieces[k][2] <= ChunkSize
      /\ \A f \in 1..Len(files[q]) :
           sentPieces[k][1] + sentPieces[k][2] < files[q][f].size
           => sentPieces[k][2] = ChunkSize

\* C19: when the decryption of a received chunk fails, the chunk is dropped
\* and reported and the transfer it belongs to is marked failed.
C19_FailedChunkFailsTransfer ==
  [][ \A p \in Peers : \A k \in 1..Len(tasks[p]) :
        LET task == tasks[p][k] IN
        ( /\ decryptSettles(p, k)
          /\ task.kind = "chunk"
          /\ ~decrypt(encryptionKeyRef[p], task.data).ok )
        => /\ rxStates' = rxStates /\ messages' = messages
           /\ "console.error: Decryption error" \in events'[p]
           /\ \A m \in 1..Len(files'[p]) :
                files'[p][m].id = rxStates[p][task.state].id
                => files'[p][m].status = "failed" ]_vars

\* C20: in a session whose camera / microphone acquisition failed no peer
\* connection is ever created and the phase stays idle.
C20_MediaFailureIsFatal ==
  \A p \in Peers :
    "console.error: Media access error" \in events[p]
    => /\ \A i \in PcIds : pcs[i].owner # p
       /\ connectionStatus[p] = "idle"

\* The file-meta envelope of file id was handed to an open channel by tab q.
MetaSent(q, id) ==
  \E n \in 1..Len(sent[q]) : sent[q][n].type = "file-meta" /\ sent[q][n].id = id

\* C21: send-file without an open channel does nothing: a tab logs a file as
\* its own, and holds a completed transfer, only for files whose file-meta
\* went out on an open channel (of its own, or of the peer for a received
\* file).
C21_NoChannelNoTransfer ==
  \A p \in Peers :
    /\ \A k \in 1..Len(messages[p]) :
         (messages[p][k].senderId = "local" /\ messages[p][k].type = "file")
         => MetaSent(p, messages[p][k].id)
    /\ \A k \in 1..Len(files[p]) :
         files[p][k].status = "completed"
         => (MetaSent(p, files[p][k].id) \/ MetaSent(Other(p), files[p][k].id))

\* C22: every frame handed to the tunnel is a chat or file-meta envelope or a
\* binary packet; the data of a chat envelope and of a packet is a
\* ciphertext under the sender's derived key with its iv, and a file-meta
\* envelope carries no text and no bytes of the file.
C22_OnlyCiphertextOnTunnel ==
  \A p \in Peers : \A k \in 1..Len(sent[p]) :
    LET f == sent[p][k] IN
    /\ f.type \in {"chat", "file-meta", "binary"}
    /\ f.type \in {"chat", "binary"} =>
         /\ f.data.key.derived /\ f.data.key = encryptionKeyRef[p]
         /\ f.data.iv > 0
    /\ f.type = "file-meta" => (f.data.text = "" /\ f.data.chunk[2] = 0)

\* C22 witness: a tab has handed a chat envelope, a file-meta envelope and a
\* packet to its open channel.
C22_AllFrameKindsSent ==
  \E p \in Peers :
    /\ Len(FramesOf(p, "chat")) > 0
    /\ Len(FramesOf(p, "file-meta")) > 0
    /\ Len(FramesOf(p, "binary")) > 0

\* C23: a step that changes the active filter of a tab, to any value, changes
\* nothing else: the connections and the tracks attached to them, the
\* registered connection and data channel, the handshake phase and the
\* enabled state of the audio and video tracks stay as they were.
C23_FilterChangesOnlyFilter ==
  [][currentFilter' # currentFilter =>
       UNCHANGED <<pcs, peersRef, dataChannelsRef, wire, sent, connectionStatus,
                   handshakeStep, isMuted, isVideoOff, localStreamRef, stopped,
                   participants, role, localSDP, remoteSDPInput, messages,
                   events, life>>]_vars

\* C23 witness: a connected tab has switched to the black filter with its
\* connection registered, the microphone track attached to it and not muted.
C23_BlackWhileConnected ==
  \E p \in Peers :
    /\ currentFilter[p] = "BLACK" /\ connectionStatus[p] = "connected"
    /\ peersRef[p] # 0 /\ "microphone" \in pcs[peersRef[p]].tracks
    /\ ~isMuted[p]

\* a can be obtained from b by leaving elements out, the order kept.
RECURSIVE IsSubseq(_, _)
IsSubseq(a, b) ==
  IF a = <<>> THEN TRUE
  ELSE IF b = <<>> THEN FALSE
  ELSE IF Head(a) = Head(b) THEN IsSubseq(Tail(a), Tail(b))
  ELSE IsSubseq(a, Tail(b))

\* C24: with the same passphrase and room id on both sides, the texts a tab
\* has logged as the peer's appear in its log in the order in which the
\* other tab sent them, whichever of the pending decryptions settles first.
C24_ChatInSendOrder ==
  \A p \in Peers :
    config[p] = config[Other(p)]
    => IsSubseq(TextsOf(messages[p], "peer"), ChatSent(Other(p)))

\* C25: with the same passphrase and room id on both sides, the pieces held
\* by every transfer state of a tab are in the order in which the other tab
\* handed their packets to the channel, which is the order of their arrival,
\* whichever of the pending decryptions settles first.
C25_ChunksInArrivalOrder ==
  \A p \in Peers :
    config[p] = config[Other(p)]
    => \A s \in 1..Len(rxStates[p]) :
         IsSubseq(rxStates[p][s].chunks, PiecesSent(Other(p)))

\* The set of the elements of a sequence.
Range(seq) == {seq[k] : k \in 1..Len(seq)}

\* The size the sender declared for file id, 0 if it sent no such file.
SentSize(q, id) ==
  LET own == SelectSeq(files[q], LAMBDA f : f.id = id)
  IN  IF own = <<>> THEN 0 ELSE own[1].size

\* C26: with the same passphrase and room id on both sides, every piece a
\* transfer state of the receiver holds is a piece of the file the state was
\* created for, and every file the receiver has finalized consists of the
\* bytes of the sent file with the same id, each once; this for uploads
\* that overlap as for uploads that follow one another.
C26_NoChunkInAnotherFile ==
  \A p \in Peers :
    config[p] = config[Other(p)]
    => /\ \A s \in 1..Len(rxStates[p]) : \A c \in Range(rxStates[p][s].chunks) :
            c[3] = rxStates[p][s].id
       /\ \A k \in 1..Len(messages[p]) :
            LET m == messages[p][k] IN
            (m.senderId = "peer" /\ m.type = "file")
            => /\ Range(Bytes(m.blob)) = Range(Bytes(Whole(m.id, SentSize(Other(p), m.id))))
               /\ Len(Bytes(m.blob)) = SentSize(Other(p), m.id)

\* Tab q started every upload only after the last packet of the uploads
\* before it had been handed to the channel.
OneAfterTheOther(q) ==
  \A a, b \in 1..Len(sent[q]) :
    ( /\ sent[q][a].type = "binary" /\ sent[q][b].type = "file-meta"
      /\ sent[q][a].data.chunk[3] < sent[q][b].id ) => a < b

\* File id of tab q went out completely: its file-meta and packets for all
\* of its bytes were handed to an open channel and the upload has finished.
SentCompletely(q, id) ==
  /\ MetaSent(q, id)
  /\ Len(Bytes(SelectSeq(PiecesSent(q), LAMBDA c : c[3] = id))) = SentSize(q, id)
  /\ \A k \in 1..Len(uploads[q]) : uploads[q][k].id # id

\* C27: when the initiator has sent its files one after the other, each
\* completely, and nothing is on its way any more, every one of them has
\* reached status completed at the receiver.
C27_SequentialFilesComplete ==
  LET q == Initiator
      p == Receiver
  IN  ( /\ config[p] = config[q] /\ OneAfterTheOther(q) /\ Quiet(q, p)
        /\ \A k \in 1..Len(files[q]) : SentCompletely(q, files[q][k].id) )
      => \A k \in 1..Len(files[q]) :
           \E m \in 1..Len(files[p]) :
             files[p][m].id = files[q][k].id /\ files[p][m].status = "completed"

\* C28: whatever updates are applied in whatever order, the participant
\* list holds at most one entry per id, and an update keeps every entry that
\* was there, each field the update does not carry with the value it had.
C28_MergeByIdUpsert ==
  [][ \A u \in Updates :
        participants'[Initiator] = addParticipant(participants[Initiator], u)
        => LET old == participants[Initiator]
               new == participants'[Initiator]
           IN  /\ \A k, m \in 1..Len(new) : new[k].id = new[m].id => k = m
               /\ \A k \in 1..Len(old) :
                    \E m \in 1..Len(new) :
                      /\ new[m].id = old[k].id
                      /\ \A fld \in DOMAIN old[k] :
                           (old[k].id # u.id \/ fld \notin DOMAIN u)
                           => (fld \in DOMAIN new[m] /\ new[m][fld] = old[k][fld]) ]_vars

\* C28 witness: the list holds both participants, and the entry of the peer
\* has the stream a track arrival gave it together with the audio flag a
\* later update that carried no stream switched off.
C28_PartialUpdateMerged ==
  /\ Len(participants[Initiator]) = 2
  /\ \E k \in 1..2 :
       LET e == participants[Initiator][k] IN
       /\ e.id = "peer" /\ DOMAIN e = DOMAIN Participant("peer", FALSE, "remote")
       /\ e.stream = "remote" /\ ~e.audioEnabled /\ e.videoEnabled /\ ~e.isLocal

\* The place of a handshake phase in the order idle, preparing, ready,
\* connected.
PhaseRank(s) ==
  CASE s = "idle" -> 0 [] s = "preparing" -> 1 [] s = "ready" -> 2
    [] s = "connected" -> 3

\* C29: in every step the handshake phase of a tab stays where it is, moves
\* to a later phase, or is reset to idle; it never moves from connected to
\* ready or preparing, nor from ready to preparing.
C29_PhaseOnlyForward ==
  [][ \A p \in Peers :
        \/ connectionStatus'[p] = "idle"
        \/ PhaseRank(connectionStatus'[p]) >= PhaseRank(connectionStatus[p]) ]_vars

\* C30: when a code decoded to an offer and applying it was rejected, the
\* failure has been reported, the connection built for it is closed and no
\* longer registered, and the receiver is not left in 'preparing' unless it
\* has started to process another code since.
C30_FailedOfferRecovers ==
  \A i \in PcIds :
    LET p == pcs[i].owner IN
    (Created(i) /\ ~pcs[i].isOffer /\ pcs[i].stage = "rejected")
    => /\ "alert: parse failed" \in events[p]
       /\ Closed(i) /\ peersRef[p] # i
       /\ (\A j \in PcIds : (j > i /\ Created(j)) => pcs[j].owner # p)
            => connectionStatus[p] # "preparing"

\* C32: every connection that has been created has the camera and the
\* microphone track of its tab attached, whenever in the initialisation of
\* the tab it was created.
C32_TracksAttachedOnCreation ==
  \A i \in PcIds : Created(i) => {"camera", "microphone"} \subseteq pcs[i].tracks

\* The entries of the participant list of tab p that are not the local one.
RemoteParticipants(p) == SelectSeq(participants[p], LAMBDA u : ~u.isLocal)

\* C34: the participant list of a tab that is shown holds at most one remote
\* participant, and holds one only while a connection is registered under
\* its id.
C34_RemoteOnlyWhileRegistered ==
  \A p \in Peers :
    Mounted(p)
    => /\ Len(RemoteParticipants(p)) <= 1
       /\ Len(RemoteParticipants(p)) = 1 => peersRef[p] # 0

\* C35: in a tab that is shown, a phase other than idle implies that a role
\* has been chosen, and without a role the phase is idle and the local and
\* the remote payload are empty.
C35_FlagsConsistent ==
  \A p \in Peers :
    Mounted(p)
    => /\ connectionStatus[p] # "idle" => role[p] \in {"initiator", "receiver"}
       /\ role[p] = "none" =>
            /\ connectionStatus[p] = "idle"
            /\ localSDP[p] = Empty /\ remoteSDPInput[p] = Empty

\* C36: every connection a tab has created and not closed is the one
\* registered under 'peer' in the peer map of that tab.
C36_OpenMeansRegistered ==
  \A i \in PcIds : (Created(i) /\ ~Closed(i)) => peersRef[pcs[i].owner] = i

\* C37: a step in which the connection state of a connection that is not the
\* registered one of its tab changes leaves the participant list of the tab
\* as it is, does not close the registered connection, and does not reset
\* the role, the payloads, the step or the phase of the handshake.
C37_StaleEventIgnored ==
  [][ \A i \in PcIds :
        LET p == pcs[i].owner
            reg == peersRef[p]
        IN  ( /\ Created(i) /\ reg # i
              /\ pcs'[i].conn # pcs[i].conn /\ pcs'[i].conn # "closed" )
            => /\ participants'[p] = participants[p]
               /\ peersRef'[p] = reg
               /\ reg # 0 => pcs'[reg].conn = pcs[reg].conn
               /\ role'[p] = role[p] /\ localSDP'[p] = localSDP[p]
               /\ remoteSDPInput'[p] = remoteSDPInput[p]
               /\ handshakeStep'[p] = handshakeStep[p]
               /\ (connectionStatus'[p] = "idle" => connectionStatus[p] = "idle") ]_vars

\* The local payload of tab p is the encoding of the complete local
\* description of connection i, and the phase is ready.
PayloadShown(i) ==
  LET p == pcs[i].owner IN
  /\ Created(i)
  /\ connectionStatus[p] = "ready"
  /\ localSDP[p] = btoa(JSONstringify(Description(pcs[i].localDesc, i, "complete")))

\* Gathering of connection i is complete and the handler not installed yet.
GatheredBeforeHandler(i) ==
  /\ Created(i) /\ Mounted(pcs[i].owner)
  /\ pcs[i].stage = "described" /\ pcs[i].ice = "complete"

C39_ProgressBounded ==
  \A p \in Peers : \A k \in 1..Len(files[p]) :
    /\ files[p][k].progress \in 0..100
    /\ files[p][k].status = "completed" => files[p][k].progress = 100

\* ------------------------------------------------------------ filter engine
\* The effect that owns the render loop.  engine.pipelines counts the times
\* the effect has created its video element and its 2d context;
\* engine.rawStreamRef and engine.srcObject name a stream by the order in
\* which getUserMedia delivered it (0: null); engine.readyState is the
\* video's readyState; engine.play is the stream a pending video.play()
\* promise was started for (0: none pending); engine.loops is the number
\* of requestAnimationFrame chains that are running; engine.canvas is the
\* stream the last frame drawn on the canvas was taken from (0: nothing
\* drawn yet); engine.console holds what console.error has printed.
HAVE_CURRENT_DATA == 2

\* The effect runs once, when the component mounts: it creates the video
\* element and installs the interval.
filterEngine ==
  /\ engine.pipelines = 0
  /\ engine' = [engine EXCEPT !.pipelines = 1]
  /\ UNCHANGED roomVars

\* The init effect has obtained a stream from getUserMedia and stores it
\* in rawStreamRef; when the effect runs again it stores another one.
getUserMedia ==
  /\ engine.pipelines > 0
  /\ engine.rawStreamRef < MaxStreams
  /\ engine' = [engine EXCEPT !.rawStreamRef = @ + 1]
  /\ UNCHANGED roomVars

\* One call of render: a frame is drawn when the video has current data,
\* and the next call is requested in either case.
render(e) ==
  IF e.pipelines > 0 /\ e.readyState >= HAVE_CURRENT_DATA
    THEN [e EXCEPT !.canvas = e.srcObject]
    ELSE e

\* The revision whose effect looks at rawStreamRef only while it runs:
\* the stream is attached when it is already there at mount.
intervalAtMount ==
  /\ engine.pipelines = 0
  /\ engine.rawStreamRef # 0
  /\ engine' = [engine EXCEPT !.pipelines = 1,
                              !.srcObject = engine.rawStreamRef,
                              !.readyState = 0,
                              !.play = engine.rawStreamRef]
  /\ UNCHANGED roomVars

\* A tick of the interval that finds a raw stream the video does not show:
\* the stream is attached and played.  Attaching a stream starts a new load
\* of the video, which rejects a play() promise that is still pending, and
\* the catch of that promise prints the error.
interval ==
  /\ engine.pipelines > 0
  /\ engine.rawStreamRef # 0
  /\ engine.srcObject # engine.rawStreamRef
  /\ engine' = [engine EXCEPT !.srcObject = engine.rawStreamRef,
                              !.readyState = 0,
                              !.play = engine.rawStreamRef,
                              !.console = IF engine.play # 0
                                            THEN @ \cup {"Filter engine failed"}
                                            ELSE @]
  /\ UNCHANGED roomVars

\* The video has received the first frame of the attached stream.
loadeddata ==
  /\ engine.srcObject # 0
  /\ engine.readyState = 0
  /\ engine' = [engine EXCEPT !.readyState = HAVE_CURRENT_DATA]
  /\ UNCHANGED roomVars

\* video.play() resolves once the video plays: render is called, which
\* starts one more chain of animation frames.
playThen ==
  /\ engine.play # 0
  /\ engine.readyState >= HAVE_CURRENT_DATA
  /\ engine' = [render(engine) EXCEPT !.play = 0, !.loops = @ + 1]
  /\ UNCHANGED roomVars

\* The browser runs the callbacks of an animation frame: every running
\* chain calls render and requests the next frame.
animationFrame ==
  /\ engine.loops > 0
  /\ engine' = render(engine)
  /\ UNCHANGED roomVars

NextRender ==
  \/ filterEngine
  \/ getUserMedia
  \/ interval
  \/ loadeddata
  \/ playThen
  \/ animationFrame

\* The interval keeps ticking, the camera keeps delivering frames and the
\* browser keeps running animation frames.
SpecRender ==
  Init /\ [][NextRender]_vars
       /\ WF_vars(interval) /\ WF_vars(loadeddata)
       /\ WF_vars(playThen) /\ WF_vars(animationFrame)

C33_NoPassthroughWhileFiltered ==
  \A i \in PcIds :
    ( /\ Created(i) /\ Established(i)
      /\ "camera" \in pcs[i].tracks
      /\ "camera" \notin stopped[pcs[i].owner]
      /\ ~isVideoOff[pcs[i].owner] )
    => currentFilter[pcs[i].owner] = "NONE"

============================================================================
